---------------------------- MODULE Spec2Model ----------------------------
(* Model of src/app.py, the "Phoneme to Chakra Story Generator" Streamlit  *)
(* script.  A string is a sequence of characters; the characters that      *)
(* matter are written as one-token names:                                  *)
(*   "PRIM" = U+02C8 primary stress, "SEC" = U+02CC secondary stress,      *)
(*   "LEN"  = U+02D0 length mark,    "SP"  = space, "TAB" = tab,           *)
(*   "m", "a", "h" = ordinary IPA letters.                                 *)
(* Fixed texts (messages, category names) are kept as TLA+ strings, and a  *)
(* formatted text is the sequence of its pieces in the order the f-string  *)
(* or join lays them out.                                                  *)
EXTENDS Integers, Sequences, FiniteSets, TLC

\* ------------------------------------------------------------------ bounds
MaxRaw  == 4   \* longest transcription the pronunciation backend returns
MaxText == 2   \* longest "text" field of a completion choice
MaxSym  == 3   \* longest symbol handed to normalize_phoneme on its own
MaxPh   == 3   \* longest phoneme list handed to map_phonemes_to_chakras on its own

\* ------------------------------------------------------------- characters
Marks      == {"PRIM", "SEC", "LEN"}          \* the class [ˈˌː]
Whitespace == {"SP", "TAB"}                   \* what str.strip/split drop
RawAlphabet  == {"m", "a", "LEN", "SP"}       \* backend output characters
SymAlphabet  == {"a", "PRIM", "SEC", "LEN", "SP", "TAB"}
TextAlphabet == {"SP", "t"}

StringsUpTo(alphabet, n) == UNION {[1..k -> alphabet] : k \in 0..n}

\* --------------------------------------------------------- string helpers
\* re.sub(r"[ˈˌː]", "", s): every occurrence of a mark is deleted, left to
\* right, everything else is kept.
RECURSIVE re_sub(_)
re_sub(s) ==
    IF s = <<>> THEN <<>>
    ELSE IF Head(s) \in Marks THEN re_sub(Tail(s))
         ELSE <<Head(s)>> \o re_sub(Tail(s))

RECURSIVE lstrip(_)
lstrip(s) ==
    IF s # <<>> /\ Head(s) \in Whitespace THEN lstrip(Tail(s)) ELSE s

RECURSIVE rstrip(_)
rstrip(s) ==
    IF s # <<>> /\ s[Len(s)] \in Whitespace
    THEN rstrip(SubSeq(s, 1, Len(s) - 1)) ELSE s

\* str.strip(): leading and trailing whitespace removed.
strip(s) == rstrip(lstrip(s))

\* str.split() without arguments: the maximal runs of non-whitespace, in
\* order; `word` is the run being read.
RECURSIVE split_from(_, _)
split_from(s, word) ==
    IF s = <<>> THEN (IF word = <<>> THEN <<>> ELSE <<word>>)
    ELSE IF Head(s) \in Whitespace
         THEN (IF word = <<>> THEN <<>> ELSE <<word>>) \o split_from(Tail(s), <<>>)
         ELSE split_from(Tail(s), Append(word, Head(s)))

split(s) == split_from(s, <<>>)

\* sep.join(parts) where each part is a sequence of pieces.
RECURSIVE join(_, _)
join(sep, parts) ==
    IF parts = <<>> THEN <<>>
    ELSE IF Len(parts) = 1 THEN Head(parts)
         ELSE Head(parts) \o <<sep>> \o join(sep, Tail(parts))

\* A list of plain strings as a list of one-piece parts.
Pieces(strs) == [i \in 1..Len(strs) |-> <<strs[i]>>]

\* Python truthiness of a str held as a TLA+ string, and of a list.
truthy_str(s)  == s # ""
truthy_list(l) == l # <<>>

\* ------------------------------------------------- normalize_phoneme (34-35)
\* Variant: the character class lacks the length mark.
normalize_phoneme_keep_length(phoneme) ==
    strip(SelectSeq(phoneme, LAMBDA c : c \notin {"PRIM", "SEC"}))

normalize_phoneme(phoneme) == strip(re_sub(phoneme))


\* ------------------------------------------------------------ program state
VARIABLES
    csvFile,             \* phoneme_chakra_mapping.csv on disk: Missing or rows
    api_key,             \* st.secrets.get("XAI_API_KEY", "")
    cache_data,          \* the @st.cache_data entry of load_phoneme_data
    phoneme_chakra_map,  \* module global, line 31
    name,                \* st.text_input value of the current run
    button,              \* st.button("Generate Story") value of the current run
    pc,                  \* "Idle", or the call the Processing block is at
    phonemes,            \* line 102
    matched_phonemes,    \* line 107
    chakras,             \* line 107
    story,               \* line 119
    response,            \* what requests.post met in this run, if it ran
    page,                \* elements rendered before the button (lines 18-31)
    spinner,             \* elements rendered inside the st.spinner block
    calls,               \* calls made inside the st.spinner block, in order
    normIn,              \* argument of a stand-alone normalize_phoneme call
    normOut              \* its result, once normDone
VARIABLE normDone

vars == <<csvFile, api_key, cache_data, phoneme_chakra_map, name, button, pc, phonemes,
          matched_phonemes, chakras, story, response, page, spinner, calls,
          normIn, normOut, normDone>>

pipelineVars == <<csvFile, api_key, cache_data, phoneme_chakra_map, name, button, pc,
                  phonemes, matched_phonemes, chakras, story, response, page,
                  spinner, calls>>

\* --------------------------------------------------------------- the data
Missing == <<"FileNotFoundError">>

\* Two data files with the header IPA,Chakra; a row is <<IPA, Chakra>>.
\* TableB repeats a key and gives two keys the same category.
TableA == << << <<"m">>, "Muladhara" >>, << <<"a">>, "Manipura" >> >>
TableB == << << <<"m">>, "Anahata" >>, << <<"a">>, "Muladhara" >>,
             << <<"m">>, "Muladhara" >>, << <<"a", "m">>, "Bindu" >> >>

Files == {Missing, TableA, TableB}

EmptyDict == [k \in {} |-> ""]

\* df.set_index("IPA")["Chakra"].to_dict(): one entry per key, the last row
\* of a repeated key wins.
to_dict(rows) ==
    [k \in {rows[i][1] : i \in 1..Len(rows)} |->
        LET last == CHOOSE i \in 1..Len(rows) :
                        /\ rows[i][1] = k
                        /\ \A j \in (i + 1)..Len(rows) : rows[j][1] # k
        IN rows[last][2]]

Names == {"", "Mahaan"}
Keys  == {"", "xai-key"}

\* UI elements: st.error / st.warning / st.subheader / st.write / st.markdown
Element(kind, body) == [kind |-> kind, body |-> body]

NoCache == [hit |-> FALSE, value |-> EmptyDict]

\* ------------------------------------------------ load_phoneme_data (22-29)
\* Result of one call: the returned dict, the cache entry afterwards and the
\* elements the body rendered (none on a cache hit without running the body).
\* Variant: the cache entry is refreshed from the file on every call.
load_phoneme_data_refresh ==
    IF csvFile = Missing
    THEN [ret |-> EmptyDict,
          cache |-> [hit |-> TRUE, value |-> EmptyDict],
          rendered |-> <<Element("error",
              <<"phoneme_chakra_mapping.csv not found. Ensure it's in the repository.">>)>>]
    ELSE [ret |-> to_dict(csvFile),
          cache |-> [hit |-> TRUE, value |-> to_dict(csvFile)],
          rendered |-> <<>>]

load_phoneme_data ==
    IF cache_data.hit
    THEN [ret |-> cache_data.value, cache |-> cache_data, rendered |-> <<>>]
    ELSE IF csvFile = Missing
         THEN [ret |-> EmptyDict,
               cache |-> [hit |-> TRUE, value |-> EmptyDict],
               rendered |-> <<Element("error",
                   <<"phoneme_chakra_mapping.csv not found. Ensure it's in the repository.">>)>>]
         ELSE [ret |-> to_dict(csvFile),
               cache |-> [hit |-> TRUE, value |-> to_dict(csvFile)],
               rendered |-> <<>>]

\* ----------------------------------------------------- get_phonemes (38-45)
\* What the pronunciation backend does with a name: raise, or return a
\* transcription (a space-delimited string).
BackendOutcomes ==
    {[raised |-> TRUE, raw |-> <<>>]} \cup
    {[raised |-> FALSE, raw |-> r] : r \in StringsUpTo(RawAlphabet, MaxRaw)}

get_phonemes(out) ==
    IF out.raised
    THEN [ret |-> <<>>,
          rendered |-> <<Element("error",
                          <<"Error extracting phonemes: ", "backend exception">>)>>]
    ELSE [ret |-> split(out.raw), rendered |-> <<>>]

\* ------------------------------------------ map_phonemes_to_chakras (48-58)
\* The for loop, from index i on, with the two lists built so far.
RECURSIVE map_loop(_, _, _, _, _)
map_loop(phs, dict, i, matched, chs) ==
    IF i > Len(phs) THEN [matched_phonemes |-> matched, chakras |-> chs]
    ELSE LET phoneme      == phs[i]
             norm_phoneme == normalize_phoneme(phoneme)
         IN IF norm_phoneme \in DOMAIN dict
            THEN map_loop(phs, dict, i + 1,
                          Append(matched, <<phoneme, norm_phoneme, dict[norm_phoneme]>>),
                          Append(chs, dict[norm_phoneme]))
            ELSE map_loop(phs, dict, i + 1,
                          Append(matched, <<phoneme, norm_phoneme, "Not found">>),
                          chs)

\* Variant: phonemes without a category get no record.
map_phonemes_to_chakras_drop_unmatched(phs, dict) ==
    LET r == map_loop(phs, dict, 1, <<>>, <<>>)
    IN [matched_phonemes |-> SelectSeq(r.matched_phonemes, LAMBDA t : t[3] # "Not found"),
        chakras |-> r.chakras]

map_phonemes_to_chakras(phs, dict) == map_loop(phs, dict, 1, <<>>, <<>>)


\* --------------------------------------------------- generate_story (61-97)
chakra_desc ==
    [k \in {"Muladhara", "Svadhisthana", "Manipura", "Anahata", "Vishuddha",
            "Ajna", "Sahasrara"} |-> "description"]

\* unique_chakras = list(set(chakras))
unique_chakras(chs) == {chs[i] : i \in 1..Len(chs)}

\* The request of line 93: headers, and what the prompt is built from.
Request(nm, chs, key) ==
    [url           |-> "https://api.x.ai/v1/completions",
     Authorization |-> <<"Bearer ", key>>,
     model         |-> "grok-3",
     max_tokens    |-> 2000,
     protagonist   |-> IF truthy_str(nm) THEN nm ELSE "a sage",
     chakras       |-> unique_chakras(chs),
     described     |-> unique_chakras(chs) \cap DOMAIN chakra_desc]

\* What requests.post can meet: a transport failure, or a response with a
\* status and a body.  A body is JSON or not; a JSON body has a "choices"
\* list or not; a choice has a "text" field or not, a string or null.
Choice(has_text, is_str, text) ==
    [has_text |-> has_text, is_str |-> is_str, text |-> text]
Choices ==
    {Choice(FALSE, FALSE, <<>>), Choice(TRUE, FALSE, <<>>)} \cup
    {Choice(TRUE, TRUE, t) : t \in StringsUpTo(TextAlphabet, MaxText)}
Body(json, has_choices, choices) ==
    [json |-> json, has_choices |-> has_choices, choices |-> choices]
Bodies ==
    {Body(FALSE, FALSE, <<>>), Body(TRUE, FALSE, <<>>), Body(TRUE, TRUE, <<>>)} \cup
    {Body(TRUE, TRUE, <<c>>) : c \in Choices} \cup
    {Body(TRUE, TRUE, <<c, Choice(TRUE, TRUE, <<"t", "t", "SP">>)>>) : c \in Choices}
Responses ==
    {[transport_error |-> TRUE, status |-> 0, body |-> Body(FALSE, FALSE, <<>>)]} \cup
    {[transport_error |-> FALSE, status |-> st, body |-> b] :
        st \in {200, 500}, b \in Bodies}
NoResponse == [transport_error |-> FALSE, status |-> 0, body |-> Body(FALSE, FALSE, <<>>)]

\* The try block, lines 83-95: the exception it raises ("" if none) and the
\* value it returns.
try_post(resp) ==
    IF resp.transport_error                THEN [exc |-> "ConnectionError", value |-> <<>>]
    ELSE IF resp.status >= 400             THEN [exc |-> "HTTPError", value |-> <<>>]
    ELSE IF ~resp.body.json                THEN [exc |-> "JSONDecodeError", value |-> <<>>]
    ELSE IF ~resp.body.has_choices         THEN [exc |-> "KeyError", value |-> <<>>]
    ELSE IF resp.body.choices = <<>>       THEN [exc |-> "IndexError", value |-> <<>>]
    ELSE IF ~resp.body.choices[1].has_text THEN [exc |-> "KeyError", value |-> <<>>]
    ELSE IF ~resp.body.choices[1].is_str   THEN [exc |-> "AttributeError", value |-> <<>>]
    ELSE [exc |-> "", value |-> strip(resp.body.choices[1].text)]

\* Result of one call: the returned Story (pieces of text), the requests it
\* posted, and the exception that left the function ("" if it returned).
guarded_post(nm, chs, key, resp, caught) ==
    LET t == try_post(resp)
    IN IF t.exc = ""
       THEN [story |-> t.value, posted |-> <<Request(nm, chs, key)>>, raised |-> ""]
       ELSE IF t.exc \in caught
            THEN [story |-> <<"Error generating story: ", t.exc>>,
                  posted |-> <<Request(nm, chs, key)>>, raised |-> ""]
            ELSE [story |-> <<>>, posted |-> <<Request(nm, chs, key)>>, raised |-> t.exc]

Exception == {"ConnectionError", "HTTPError", "JSONDecodeError", "KeyError",
              "IndexError", "AttributeError"}

\* Variant: the credential check of lines 64-65 is missing.
generate_story_no_key_check(nm, chs, key, resp) ==
    IF ~truthy_list(chs)
    THEN [story |-> <<"No chakras found to generate a story.">>,
          posted |-> <<>>, raised |-> ""]
    ELSE guarded_post(nm, chs, key, resp, Exception)

\* Variant: the category check of lines 62-63 is missing.
generate_story_no_chakras_check(nm, chs, key, resp) ==
    IF ~truthy_str(key)
    THEN [story |-> <<"Please provide a valid xAI API key.">>,
          posted |-> <<>>, raised |-> ""]
    ELSE guarded_post(nm, chs, key, resp, Exception)

\* Variant: line 96 catches requests' own exceptions only.
generate_story_narrow_except(nm, chs, key, resp) ==
    IF ~truthy_list(chs)
    THEN [story |-> <<"No chakras found to generate a story.">>,
          posted |-> <<>>, raised |-> ""]
    ELSE IF ~truthy_str(key)
    THEN [story |-> <<"Please provide a valid xAI API key.">>,
          posted |-> <<>>, raised |-> ""]
    ELSE guarded_post(nm, chs, key, resp, {"ConnectionError", "HTTPError"})

generate_story(nm, chs, key, resp) ==
    IF ~truthy_list(chs)
    THEN [story |-> <<"No chakras found to generate a story.">>,
          posted |-> <<>>, raised |-> ""]
    ELSE IF ~truthy_str(key)
    THEN [story |-> <<"Please provide a valid xAI API key.">>,
          posted |-> <<>>, raised |-> ""]
    ELSE guarded_post(nm, chs, key, resp, Exception)

\* ----------------------------------------------------------- the script run
NoStory == <<>>

\* Line 100: the Processing block runs when the button was clicked and the
\* name is not empty.
trigger_button_only(btn, nm) == btn

trigger(btn, nm) == btn /\ truthy_str(nm)

\* Lines 102-122: the call that follows call `at` inside the block, "Idle"
\* when the block is over.
next_call_map_always(at, phs) ==
    IF at = "get_phonemes" THEN "map_phonemes_to_chakras"
    ELSE IF at = "map_phonemes_to_chakras" THEN "generate_story"
    ELSE "Idle"

next_call(at, phs) ==
    IF at = "get_phonemes"
    THEN (IF truthy_list(phs) THEN "map_phonemes_to_chakras" ELSE "Idle")
    ELSE IF at = "map_phonemes_to_chakras" THEN "generate_story"
    ELSE "Idle"

Init ==
    /\ csvFile \in Files
    /\ api_key \in Keys
    /\ cache_data = NoCache
    /\ phoneme_chakra_map = EmptyDict
    /\ name = ""
    /\ button = FALSE
    /\ pc = "Idle"
    /\ phonemes = <<>>
    /\ matched_phonemes = <<>>
    /\ chakras = <<>>
    /\ story = NoStory
    /\ response = NoResponse
    /\ page = <<>>
    /\ spinner = <<>>
    /\ calls = <<>>
    /\ normIn = <<>>
    /\ normOut = <<>>
    /\ normDone = FALSE

\* One run of the script up to the guard of line 100, started by a widget
\* interaction: the name typed so far and whether the button was clicked.
Rerun(btn, nm) ==
    /\ pc = "Idle"
    /\ LET ld == load_phoneme_data
       IN /\ cache_data' = ld.cache
          /\ phoneme_chakra_map' = ld.ret
          /\ page' = (IF ~truthy_str(api_key)
                      THEN <<Element("warning",
                             <<"Please enter an xAI API key. For deployment, store it in Streamlit secrets.">>)>>
                      ELSE <<>>) \o ld.rendered
    /\ name' = nm
    /\ button' = btn
    /\ pc' = IF trigger(btn, nm) THEN "get_phonemes" ELSE "Idle"
    /\ phonemes' = <<>>
    /\ matched_phonemes' = <<>>
    /\ chakras' = <<>>
    /\ story' = NoStory
    /\ response' = NoResponse
    /\ spinner' = <<>>
    /\ calls' = <<>>
    /\ UNCHANGED <<csvFile, api_key, normIn, normOut, normDone>>

\* Lines 102-105 and 121-122.
GetPhonemes(out) ==
    /\ pc = "get_phonemes"
    /\ LET r == get_phonemes(out)
       IN /\ phonemes' = r.ret
          /\ IF truthy_list(r.ret)
             THEN /\ spinner' = spinner \o r.rendered \o
                        <<Element("subheader", <<"Phonemes Extracted">>),
                          Element("write", join(", ", r.ret))>>
             ELSE /\ spinner' = spinner \o r.rendered \o
                        <<Element("error",
                            <<"Could not extract phonemes. Please try another name.">>)>>
          /\ pc' = next_call("get_phonemes", r.ret)
    /\ calls' = Append(calls, "get_phonemes")
    /\ UNCHANGED <<csvFile, api_key, cache_data, phoneme_chakra_map, name, button,
                   matched_phonemes, chakras, story, response, page,
                   normIn, normOut, normDone>>

\* Lines 107-118.
MapPhonemes ==
    /\ pc = "map_phonemes_to_chakras"
    /\ LET r == map_phonemes_to_chakras(phonemes, phoneme_chakra_map)
           lines == [i \in 1..Len(r.matched_phonemes) |->
                        Element("write",
                            <<"Phoneme: ">> \o r.matched_phonemes[i][1] \o
                            <<" (Normalized: ">> \o r.matched_phonemes[i][2] \o
                            <<") -> Chakra: ", r.matched_phonemes[i][3]>>)]
       IN /\ matched_phonemes' = r.matched_phonemes
          /\ chakras' = r.chakras
          /\ spinner' = spinner \o
                <<Element("subheader", <<"Phoneme to Chakra Mapping">>)>> \o lines \o
                <<Element("subheader", <<"Associated Chakras">>),
                  IF truthy_list(r.chakras)
                  THEN Element("write", join(", ", Pieces(r.chakras)))
                  ELSE Element("warning",
                        <<"No chakras matched. Story generation may be limited.">>),
                  Element("subheader", <<"Mystical Story">>)>>
    /\ calls' = Append(calls, "map_phonemes_to_chakras")
    /\ pc' = next_call("map_phonemes_to_chakras", phonemes)
    /\ UNCHANGED <<csvFile, api_key, cache_data, phoneme_chakra_map, name, button,
                   phonemes, story, response, page, normIn, normOut, normDone>>

\* Lines 119-120.  An exception leaving generate_story ends the script run
\* with Streamlit's exception box.
GenerateStory(resp) ==
    /\ pc = "generate_story"
    /\ LET r == generate_story(name, chakras, api_key, resp)
       IN /\ calls' = calls \o <<"generate_story">> \o
                      [i \in 1..Len(r.posted) |-> "requests.post"]
          /\ response' = IF r.posted # <<>> THEN resp ELSE NoResponse
          /\ IF r.raised = ""
             THEN /\ story' = r.story
                  /\ spinner' = Append(spinner, Element("markdown", r.story))
             ELSE /\ story' = NoStory
                  /\ spinner' = Append(spinner, Element("exception", <<r.raised>>))
    /\ pc' = next_call("generate_story", phonemes)
    /\ UNCHANGED <<csvFile, api_key, cache_data, phoneme_chakra_map, name, button,
                   phonemes, matched_phonemes, chakras, page,
                   normIn, normOut, normDone>>

\* The data file is replaced, created or deleted on disk while the process
\* runs.
FileChange(f) ==
    /\ f # csvFile
    /\ csvFile' = f
    /\ UNCHANGED <<api_key, cache_data, phoneme_chakra_map, name, button, pc,
                   phonemes, matched_phonemes, chakras, story, response, page,
                   spinner, calls, normIn, normOut, normDone>>

Next ==
    \/ \E btn \in BOOLEAN, nm \in Names : Rerun(btn, nm)
    \/ \E out \in BackendOutcomes : GetPhonemes(out)
    \/ MapPhonemes
    \/ \E resp \in Responses : GenerateStory(resp)
    \/ \E f \in Files : FileChange(f)

Spec == Init /\ [][Next]_vars

\* ------------------------------------- normalize_phoneme called on its own
InitNormalize ==
    /\ csvFile = TableA
    /\ api_key = ""
    /\ cache_data = NoCache
    /\ phoneme_chakra_map = EmptyDict
    /\ name = ""
    /\ button = FALSE
    /\ pc = "Idle"
    /\ phonemes = <<>>
    /\ matched_phonemes = <<>>
    /\ chakras = <<>>
    /\ story = NoStory
    /\ response = NoResponse
    /\ page = <<>>
    /\ spinner = <<>>
    /\ calls = <<>>
    /\ normIn \in StringsUpTo(SymAlphabet, MaxSym)
    /\ normOut = <<>>
    /\ normDone = FALSE

Normalize ==
    /\ ~normDone
    /\ normOut' = normalize_phoneme(normIn)
    /\ normDone' = TRUE
    /\ UNCHANGED <<normIn, pipelineVars>>

NextNormalize == Normalize

SpecNormalize == InitNormalize /\ [][NextNormalize]_vars


\* ------------------------------- map_phonemes_to_chakras called on its own
PhonemeSymbols == {<<"m">>, <<"a">>, <<"a", "LEN">>, <<"LEN">>, <<"a", "m">>, <<"h">>}
Dicts == {EmptyDict, to_dict(TableA), to_dict(TableB)}

InitMapper ==
    /\ csvFile = TableA
    /\ api_key = ""
    /\ cache_data = NoCache
    /\ phoneme_chakra_map \in Dicts
    /\ name = ""
    /\ button = FALSE
    /\ pc = "Idle"
    /\ phonemes \in UNION {[1..k -> PhonemeSymbols] : k \in 0..MaxPh}
    /\ matched_phonemes = <<>>
    /\ chakras = <<>>
    /\ story = NoStory
    /\ response = NoResponse
    /\ page = <<>>
    /\ spinner = <<>>
    /\ calls = <<>>
    /\ normIn = <<>>
    /\ normOut = <<>>
    /\ normDone = FALSE

MapCall ==
    /\ calls = <<>>
    /\ LET r == map_phonemes_to_chakras(phonemes, phoneme_chakra_map)
       IN /\ matched_phonemes' = r.matched_phonemes
          /\ chakras' = r.chakras
    /\ calls' = <<"map_phonemes_to_chakras">>
    /\ UNCHANGED <<csvFile, api_key, cache_data, phoneme_chakra_map, name, button,
                   pc, phonemes, story, response, page, spinner,
                   normIn, normOut, normDone>>

NextMapper == MapCall

SpecMapper == InitMapper /\ [][NextMapper]_vars

\* ================================================================ properties
Called(f) == \E i \in 1..Len(calls) : calls[i] = f
CountCalls(f) == Cardinality({i \in 1..Len(calls) : calls[i] = f})
CountKind(elems, kind) == Cardinality({i \in 1..Len(elems) : elems[i].kind = kind})
Distinct(l) == \A i, j \in 1..Len(l) : i # j => l[i] # l[j]

\* C1: the category collection map_phonemes_to_chakras returns (rendered
\* under "Associated Chakras" and passed to generate_story) has no duplicate
\* entries and never holds the "Not found" sentinel.
C1_CategoryCollectionHasNoDuplicates ==
    Called("map_phonemes_to_chakras") =>
        /\ Distinct(chakras)
        /\ \A i \in 1..Len(chakras) : chakras[i] # "Not found"

\* C2: whenever generate_story is called with an empty credential, for any
\* category collection, it returns "Please provide a valid xAI API key." and
\* makes no network call.
C2_EmptyKeyAlwaysKeyMessage ==
    (Called("generate_story") /\ api_key = "") =>
        /\ story = <<"Please provide a valid xAI API key.">>
        /\ ~Called("requests.post")

\* C2 (amended): whenever generate_story is called with an empty credential
\* and a non-empty category collection, it returns "Please provide a valid
\* xAI API key." and makes no network call.
C2_EmptyKeyWithChakrasKeyMessage ==
    (Called("generate_story") /\ api_key = "" /\ chakras # <<>>) =>
        /\ story = <<"Please provide a valid xAI API key.">>
        /\ ~Called("requests.post")
        /\ response = NoResponse

C2_Witness ==
    /\ Called("generate_story")
    /\ api_key = ""
    /\ Len(chakras) >= 2
    /\ story = <<"Please provide a valid xAI API key.">>

\* C3: whenever generate_story is called with an empty category collection,
\* for any credential, it returns "No chakras found to generate a story."
\* and makes no network call.
C3_NoChakrasMessage ==
    (Called("generate_story") /\ chakras = <<>>) =>
        /\ story = <<"No chakras found to generate a story.">>
        /\ ~Called("requests.post")
        /\ response = NoResponse

C3_Witness ==
    /\ Called("generate_story")
    /\ chakras = <<>>
    /\ api_key # ""
    /\ story = <<"No chakras found to generate a story.">>

\* C4: in a Processing episode where phoneme extraction yields an empty
\* sequence, neither map_phonemes_to_chakras nor generate_story is invoked,
\* no network call is made, and exactly one error message is rendered.
C4_EmptyExtractionOneError ==
    (Called("get_phonemes") /\ phonemes = <<>>) =>
        /\ ~Called("map_phonemes_to_chakras")
        /\ ~Called("generate_story")
        /\ ~Called("requests.post")
        /\ CountKind(spinner, "error") = 1

\* C5: when generate_story is called with non-empty categories and a
\* non-empty credential, every failure of the generation step (transport
\* error, non-success status, malformed or incomplete payload) gives a Story
\* that begins with "Error generating story:" and nothing propagates to the
\* caller; on success the Story is the trimmed text of the first choice.
GenerationFailed(resp) ==
    \/ resp.transport_error
    \/ resp.status < 200 \/ resp.status > 299
    \/ ~resp.body.json
    \/ ~resp.body.has_choices
    \/ Len(resp.body.choices) = 0
    \/ ~resp.body.choices[1].has_text
    \/ ~resp.body.choices[1].is_str

\* t is s without its leading and trailing whitespace.
IsTrimOf(t, s) ==
    /\ t # <<>> => (t[1] \notin Whitespace /\ t[Len(t)] \notin Whitespace)
    /\ \E a \in 0..Len(s) :
          /\ a + Len(t) <= Len(s)
          /\ \A i \in 1..Len(t) : t[i] = s[a + i]
          /\ \A i \in 1..a : s[i] \in Whitespace
          /\ \A i \in (a + Len(t) + 1)..Len(s) : s[i] \in Whitespace

C5_FailuresBecomeErrorStory ==
    (Called("generate_story") /\ chakras # <<>> /\ api_key # "") =>
        /\ CountKind(spinner, "exception") = 0
        /\ CountCalls("requests.post") = 1
        /\ spinner[Len(spinner)] = Element("markdown", story)
        /\ IF GenerationFailed(response)
           THEN Len(story) >= 1 /\ story[1] = "Error generating story: "
           ELSE IsTrimOf(story, response.body.choices[1].text)

C5_Witness ==
    /\ Called("generate_story")
    /\ chakras # <<>>
    /\ api_key # ""
    /\ response.status = 500
    /\ response.body.json /\ response.body.has_choices
    /\ Len(story) >= 1 /\ story[1] = "Error generating story: "

\* C6: Processing happens only when the button fired and the name is not
\* empty; with an empty name, or without the button, no extraction, mapping,
\* story generation or network call occurs.
C6_ProcessingOnlyOnTriggerWithName ==
    (~button \/ name = "") =>
        /\ pc = "Idle"
        /\ calls = <<>>
        /\ spinner = <<>>
        /\ response = NoResponse

C6_Witness ==
    /\ button
    /\ name = ""
    /\ cache_data.hit
    /\ pc = "Idle"
    /\ calls = <<>>

\* C7: map_phonemes_to_chakras returns one MatchRecord per input symbol, in
\* input order: (symbol i, its normalized form, the mapping's category for
\* the normalized form or "Not found"); an empty input gives empty outputs.
C7_OneRecordPerPhoneme ==
    Called("map_phonemes_to_chakras") =>
        /\ Len(matched_phonemes) = Len(phonemes)
        /\ \A i \in 1..Len(phonemes) :
              /\ Len(matched_phonemes[i]) = 3
              /\ matched_phonemes[i][1] = phonemes[i]
              /\ matched_phonemes[i][2] = normalize_phoneme(phonemes[i])
              /\ matched_phonemes[i][3] =
                    IF matched_phonemes[i][2] \in DOMAIN phoneme_chakra_map
                    THEN phoneme_chakra_map[matched_phonemes[i][2]]
                    ELSE "Not found"
        /\ phonemes = <<>> => (matched_phonemes = <<>> /\ chakras = <<>>)

C7_Witness ==
    /\ Called("map_phonemes_to_chakras")
    /\ Len(phonemes) = 3
    /\ matched_phonemes[1][3] = "Not found"
    /\ matched_phonemes[2][2] # matched_phonemes[2][1]
    /\ matched_phonemes[2][3] # "Not found"
    /\ matched_phonemes[3][3] = "Not found"

\* C8: normalize_phoneme returns its input with exactly the marks PRIM, SEC
\* and LEN removed and nothing else removed but leading/trailing whitespace;
\* it is total and idempotent.
C8_NormalizeRemovesExactlyMarks ==
    normDone =>
        /\ \A i \in 1..Len(normOut) : normOut[i] \notin Marks
        /\ IsTrimOf(normOut, SelectSeq(normIn, LAMBDA c : c \notin Marks))
        /\ normalize_phoneme(normOut) = normOut

C8_Witness ==
    /\ normDone
    /\ Len(normIn) = 3
    /\ normIn[1] \in Whitespace
    /\ normIn[2] = "LEN"
    /\ normOut = <<"a">>

\* C9: once loaded, the phoneme-to-category mapping is the value the single
\* load produced (the empty mapping if the file was missing): no later step
\* changes it, whatever the requests end in, and a new request starts from
\* none of the previous request's results.
C9_MappingFrame ==
    [][ /\ (~cache_data.hit /\ cache_data'.hit) =>
              /\ cache_data'.value =
                    (IF csvFile = Missing THEN EmptyDict ELSE to_dict(csvFile))
              /\ phoneme_chakra_map' = cache_data'.value
        /\ cache_data.hit =>
              /\ cache_data' = cache_data
              /\ phoneme_chakra_map' = cache_data.value
        /\ (pc = "Idle" /\ pc' # "Idle") =>
              /\ phonemes' = <<>> /\ matched_phonemes' = <<>> /\ chakras' = <<>>
              /\ story' = NoStory /\ response' = NoResponse
              /\ spinner' = <<>> /\ calls' = <<>>
      ]_vars

C9_Witness ==
    /\ cache_data.hit
    /\ phoneme_chakra_map = to_dict(TableB)
    /\ csvFile = Missing
    /\ pc = "Idle"
    /\ Called("requests.post")
    /\ Len(story) >= 1 /\ story[1] = "Error generating story: "

\* C10: a Processing episode runs its stages forward, each at most once:
\* extraction; then, only if the phonemes are non-empty, mapping; then the
\* story request (also when no category matched) with at most one HTTP POST;
\* then back to Idle after rendering the story or an error.
Stages == <<"get_phonemes", "map_phonemes_to_chakras", "generate_story", "requests.post">>

C10_StagesForwardOnce ==
    /\ Len(calls) <= 4
    /\ \A i \in 1..Len(calls) : calls[i] = Stages[i]
    /\ pc = "get_phonemes" => calls = <<>>
    /\ pc = "map_phonemes_to_chakras" => (Len(calls) = 1 /\ phonemes # <<>>)
    /\ pc = "generate_story" => Len(calls) = 2
    /\ Called("map_phonemes_to_chakras") => phonemes # <<>>
    /\ (pc = "Idle" /\ calls # <<>>) =>
          \/ /\ Len(calls) = 1
             /\ phonemes = <<>>
             /\ spinner[Len(spinner)].kind = "error"
          \/ /\ Len(calls) >= 3
             /\ phonemes # <<>>
             /\ spinner[Len(spinner)] = Element("markdown", story)

C10_Witness ==
    /\ pc = "Idle"
    /\ calls = <<"get_phonemes", "map_phonemes_to_chakras", "generate_story">>
    /\ chakras = <<>>
    /\ phonemes # <<>>
    /\ api_key # ""

=============================================================================
